---- MODULE Spec2Model ----
(***************************************************************************)
(* Bounded sequential tool-calling orchestrator of the RAG chatbot         *)
(* (backend/ai_generator.py: AIGenerator.generate_response and             *)
(* AIGenerator._handle_tool_execution), together with the caller-facing    *)
(* query operation and the citation pool of the Tool Registry, which the   *)
(* repository keeps in rag_system.py and search_tools.py.                   *)
(*                                                                         *)
(* A Python string is carried as a sequence of tokens, so that the         *)
(* concatenations the code performs (f-strings) are sequence               *)
(* concatenations.  A dict is a function whose DOMAIN is its key set, so   *)
(* that an absent key is an absent element of the DOMAIN.                  *)
(***************************************************************************)
EXTENDS Integers, Sequences, FiniteSets, TLC

\* Largest value of config.MAX_TOOL_ROUNDS the model explores.
MaxRoundsBound == 2

\* Callers of generate_response; under Spec only caller 1 runs.
Procs == {1, 2}
SeqProcs == {1}

VARIABLES
    MAX_TOOL_ROUNDS,   \* config.MAX_TOOL_ROUNDS
    pc,                \* position of each call of generate_response
    base_params,       \* the base_params argument of _handle_tool_execution (api_params)
    tool_manager,      \* whether a tool manager was passed
    messages,          \* local list messages
    current_round,     \* local current_round
    current_response,  \* local current_response
    tool_results,      \* local list tool_results
    block_idx,         \* position of the for loop over current_response.content
    result,            \* the returned text, or the exception that left the call
    calls,             \* keyword arguments of every client.messages.create call
    execs,             \* every tool_manager.execute_tool call
    caller,            \* who called generate_response: a direct caller or query()
    last_sources,      \* citation pool of the Tool Registry
    sources,           \* citations query() has collected
    manager_calls,     \* calls made on the Tool Registry by query(), or by its user
    request,           \* the arguments of query(): text and session_id
    session_calls,     \* calls made on the session manager by query()
    args,              \* the arguments generate_response was called with
    instance_base_params  \* self.base_params of the AIGenerator instance

orch_vars == <<MAX_TOOL_ROUNDS, pc, base_params, tool_manager, messages, current_round,
               current_response, tool_results, block_idx, result, calls, execs,
               args, instance_base_params>>
query_vars == <<request, session_calls>>
vars == <<orch_vars, caller, last_sources, sources, manager_calls, query_vars>>

-----------------------------------------------------------------------------
(* Values *)

SYSTEM_PROMPT == <<"SYSTEM_PROMPT">>

\* self.base_params of AIGenerator.__init__
self_base_params == [model |-> "model", temperature |-> 0, max_tokens |-> 800]

None == <<>>

\* content segments of a provider response
TextBlock(t) == [type |-> "text", text |-> t]
ToolUseBlock(i, n) == [type |-> "tool_use", id |-> i, name |-> n, input |-> "input"]

U1 == ToolUseBlock("tool_1", "search_course_content")
U2 == ToolUseBlock("tool_2", "get_course_outline")
\* an invocation of a tool name that is not registered
U3 == ToolUseBlock("tool_3", "unknown_tool")
T1 == TextBlock("answer")
T2 == TextBlock("more")

\* The content lists the provider may answer with.  Correlation identifiers
\* are assigned by the provider and are distinct within one turn.
Contents == { <<T1>>, <<T2, T1>>, <<U1>>, <<U2, U1>>, <<T1, U1>>, <<U1, T2>>, <<U3>>, <<>> }

StopReasons == {"tool_use", "end_turn"}

IsToolUse(content_block) == content_block.type = "tool_use"
HasToolUse(content) == \E i \in 1..Len(content) : IsToolUse(content[i])

\* A response that holds an invocation has stop reason tool_use (end_turn
\* stands for every other stop reason); a response with stop reason tool_use
\* may hold no invocation, which line 153 provides for: <<T1>> is that case.
Responses ==
    { r \in [stop_reason : StopReasons, content : Contents] :
          \/ r.stop_reason = "tool_use" <=> HasToolUse(r.content)
          \/ r.stop_reason = "tool_use" /\ r.content = <<T1>> }

\* outcome of client.messages.create: a response, or an exception
ProviderFault == [stop_reason |-> "raise", content |-> <<>>]
ProviderOutcomes == Responses \cup {ProviderFault}

\* Outcome of tool_manager.execute_tool: a returned string, or an exception.
\* populates tells whether the call replaced the citation pool by sources.
Returns(t) == [kind |-> "return", text |-> t, populates |-> FALSE, sources |-> <<>>]
Raises(t) == [kind |-> "raise", text |-> t, populates |-> FALSE, sources |-> <<>>]
Found(t, cs) == [kind |-> "return", text |-> t, populates |-> TRUE, sources |-> cs]

Citation(label, link) == [label |-> label, link |-> link]

\* a tool manager handed to generate_response by a direct caller
MockOutcomes == { Returns(<<"result">>), Raises(<<"boom">>) }

\* results of the semantic store: an error, no document, or matched documents
\* documents and metadata are parallel lists
ErrorResults(msg) == [error |-> msg, documents |-> <<>>, metadata |-> <<>>]
EmptyResults == [error |-> None, documents |-> <<>>, metadata |-> <<>>]
Metadata(title, lesson) == [course_title |-> title, lesson_number |-> lesson]
SampleResults ==
    [error |-> None, documents |-> <<"Doc 1", "Doc 2">>,
     metadata |-> << Metadata("Course A", <<"1">>), Metadata("Course B", None) >>]
ThreeResults ==
    [error |-> None, documents |-> <<"Doc 3", "Doc 1", "Doc 2">>,
     metadata |-> << Metadata("Course B", None), Metadata("Course A", <<"2">>),
                     Metadata("Course A", <<"1">>) >>]
\* what the store answers within a query, and to a user of the registry
QueryStoreResults == { ErrorResults(<<"No course found matching 'X'">>), SampleResults }
StoreResults == QueryStoreResults \cup { EmptyResults, ThreeResults }

\* the store's get_lesson_link(course_title, lesson_number): a link, or None
get_lesson_link(course_title, lesson_number) ==
    IF course_title = "Course A" /\ lesson_number = <<"1">>
    THEN <<"https://example.com/lesson1">>
    ELSE None

\* the optional filters of a content search
CourseNames == { None, <<"Test Course">> }
LessonNumbers == { None, <<"5">> }

no_content_message_plain(course_name, lesson_number) ==
    <<"No relevant content found", ".">>

\* the message of a search that matched no document
no_content_message(course_name, lesson_number) ==
    <<"No relevant content found">>
        \o (IF course_name # None THEN <<" in course '">> \o course_name \o <<"'">> ELSE <<>>)
        \o (IF lesson_number # None THEN <<" in lesson ">> \o lesson_number ELSE <<>>)
        \o <<".">>

\* "<course title> - Lesson <n>", or "<course title>" without lesson
Label(meta) ==
    IF meta.lesson_number # None
    THEN <<meta.course_title, " - Lesson ">> \o meta.lesson_number
    ELSE <<meta.course_title>>

\* the citation of one matched document
Source(meta) ==
    Citation(Label(meta),
             IF meta.lesson_number # None
             THEN get_lesson_link(meta.course_title, meta.lesson_number)
             ELSE None)

\* the labelled block of one matched document
Block(doc, meta) == <<"[">> \o Label(meta) \o <<"]", "\n", doc>>

\* the blocks of documents n, n+1, ... joined by blank lines
RECURSIVE Blocks(_, _)
Blocks(results, n) ==
    IF n > Len(results.documents) THEN <<>>
    ELSE IF n = Len(results.documents)
    THEN Block(results.documents[n], results.metadata[n])
    ELSE Block(results.documents[n], results.metadata[n]) \o <<"\n\n">>
             \o Blocks(results, n + 1)

format_results_reversed(results) ==
    Found(Blocks(results, 1),
          [i \in 1..Len(results.documents) |->
               Source(results.metadata[Len(results.documents) + 1 - i])])

\* the labelled blocks of the matched documents, and their citations
format_results(results) ==
    Found(Blocks(results, 1),
          [i \in 1..Len(results.documents) |-> Source(results.metadata[i])])

\* the citations of the sample search
SampleSources == format_results(SampleResults).sources

CourseSearchTool_execute_error_clears(results, course_name, lesson_number) ==
    IF results.error # None THEN Found(results.error, <<>>)
    ELSE IF results.documents = <<>>
         THEN Returns(no_content_message(course_name, lesson_number))
    ELSE format_results(results)

\* content search: execute(query, course_name, lesson_number) on what the
\* store answered
CourseSearchTool_execute(results, course_name, lesson_number) ==
    IF results.error # None THEN Returns(results.error)
    ELSE IF results.documents = <<>>
         THEN Returns(no_content_message(course_name, lesson_number))
    ELSE format_results(results)

CourseOutlineTool_execute_populates == Found(<<"outline">>, <<>>)

\* outline lookup: never populates the pool
CourseOutlineTool_execute == Returns(<<"outline">>)

\* dispatch of a name under which no tool is registered
ToolNotFound(name) == Raises(<<"ToolNotFound: ", name>>)

\* the Tool Registry dispatching by name: the tool's result, or an exception
\* of the search tool
RegistryOutcomes(name) ==
    IF name = "search_course_content"
    THEN { CourseSearchTool_execute(r, None, None) : r \in StoreResults }
             \cup { Raises(<<"boom">>) }
    ELSE IF name = "get_course_outline"
    THEN { CourseOutlineTool_execute }
    ELSE { ToolNotFound(name) }

\* the registry's answers within the queries of Spec: the store answers a
\* search with an error or with documents (the search without match is
\* exercised under SearchSpec and, on the registry alone, under ToolSpec)
QueryOutcomes(name) ==
    IF name = "search_course_content"
    THEN { CourseSearchTool_execute(r, None, None) : r \in QueryStoreResults }
             \cup { Raises(<<"boom">>) }
    ELSE RegistryOutcomes(name)

ToolOutcomes == MockOutcomes \cup QueryOutcomes("search_course_content")
                    \cup QueryOutcomes("get_course_outline")
                    \cup QueryOutcomes("unknown_tool")

Queries == { <<"query">> }
Histories == { None, <<"history">> }
TOOLS == <<"search_course_content", "get_course_outline">>
\* tools argument: None, an empty list (both falsy), or the schema list
ToolArgs == { <<>>, TOOLS }

no_response == [stop_reason |-> "none", content |-> <<>>]
SessionIds == {None, <<"session_1">>}
no_request == [text |-> None, session_id |-> None]
no_args == [query |-> None, conversation_history |-> None, tools |-> None,
            tool_manager |-> FALSE]
no_result == [kind |-> "none", value |-> "none"]

-----------------------------------------------------------------------------
(* Pure helpers *)

hasattr_text(content_block) == "text" \in DOMAIN content_block

\* lines 184-191: first block with a text attribute, else the fallback
RECURSIVE FirstText(_)
FirstText(content) ==
    IF content = <<>> THEN "Unable to generate response."
    ELSE IF hasattr_text(Head(content)) THEN Head(content).text
    ELSE FirstText(Tail(content))

ExtractFinal(response) == [kind |-> "return", value |-> FirstText(response.content)]

DirectReturn_last(response) ==
    IF response.content = <<>> THEN [kind |-> "raise", value |-> "IndexError"]
    ELSE IF ~hasattr_text(response.content[Len(response.content)])
         THEN [kind |-> "raise", value |-> "AttributeError"]
    ELSE [kind |-> "return", value |-> response.content[Len(response.content)].text]

\* line 98: response.content[0].text
DirectReturn(response) ==
    IF response.content = <<>> THEN [kind |-> "raise", value |-> "IndexError"]
    ELSE IF ~hasattr_text(response.content[1])
         THEN [kind |-> "raise", value |-> "AttributeError"]
    ELSE [kind |-> "return", value |-> response.content[1].text]

SystemContent_heading_always(conversation_history) ==
    SYSTEM_PROMPT \o <<"\n\nPrevious conversation:\n">> \o conversation_history

\* lines 72-76
SystemContent(conversation_history) ==
    IF conversation_history # <<>>
    THEN SYSTEM_PROMPT \o <<"\n\nPrevious conversation:\n">> \o conversation_history
    ELSE SYSTEM_PROMPT

ApiParams_tools_always(query, conversation_history, tools) ==
    [model |-> instance_base_params.model,
     temperature |-> instance_base_params.temperature,
     max_tokens |-> instance_base_params.max_tokens,
     messages |-> << [role |-> "user", content |-> <<[type |-> "str", text |-> query]>>] >>,
     system |-> SystemContent(conversation_history),
     tools |-> tools,
     tool_choice |-> [type |-> "auto"]]

\* lines 79-88
ApiParams(query, conversation_history, tools) ==
    LET p == [model |-> instance_base_params.model,
              temperature |-> instance_base_params.temperature,
              max_tokens |-> instance_base_params.max_tokens,
              messages |-> << [role |-> "user", content |-> <<[type |-> "str", text |-> query]>>] >>,
              system |-> SystemContent(conversation_history)]
    IN IF tools # <<>>
       THEN p @@ [tools |-> tools, tool_choice |-> [type |-> "auto"]]
       ELSE p

-----------------------------------------------------------------------------
(* State *)

\* no call is in progress
NoCall ==
    /\ pc = [q \in Procs |-> "idle"]
    /\ base_params = [q \in Procs |-> <<>>]
    /\ args = [q \in Procs |-> no_args]
    /\ instance_base_params = self_base_params
    /\ tool_manager = [q \in Procs |-> FALSE]
    /\ messages = [q \in Procs |-> <<>>]
    /\ current_round = [q \in Procs |-> 0]
    /\ current_response = [q \in Procs |-> no_response]
    /\ tool_results = [q \in Procs |-> <<>>]
    /\ block_idx = [q \in Procs |-> 0]
    /\ result = [q \in Procs |-> no_result]
    /\ calls = [q \in Procs |-> <<>>]
    /\ execs = [q \in Procs |-> <<>>]
    /\ caller = [q \in Procs |-> "none"]
    /\ last_sources = <<>>
    /\ sources = [q \in Procs |-> <<>>]
    /\ manager_calls = [q \in Procs |-> <<>>]
    /\ request = [q \in Procs |-> no_request]
    /\ session_calls = [q \in Procs |-> <<>>]

Init ==
    /\ MAX_TOOL_ROUNDS \in 0..MaxRoundsBound
    /\ NoCall

ProviderRaises_masked == [kind |-> "return", value |-> "Unable to generate response."]

\* lines 91 and 176: no try block encloses client.messages.create, so its
\* exception leaves generate_response
ProviderRaises == [kind |-> "raise", value |-> "ProviderFault"]

while_cond_at_least_once(response, round) ==
    response.stop_reason = "tool_use" /\ (round <= MAX_TOOL_ROUNDS \/ round = 1)
while_cond_lt(response, round) ==
    response.stop_reason = "tool_use" /\ round < MAX_TOOL_ROUNDS
while_cond_unbounded(response, round) ==
    response.stop_reason = "tool_use"

\* line 127: the condition of the while loop
while_cond(response, round) ==
    response.stop_reason = "tool_use" /\ round <= MAX_TOOL_ROUNDS

\* line 127: the while test, and lines 184-191 when it fails
WhileTest(q, response, round) ==
    IF while_cond(response, round)
    THEN /\ pc' = [pc EXCEPT ![q] = "dispatch"]
         /\ tool_results' = [tool_results EXCEPT ![q] = <<>>]
         /\ block_idx' = [block_idx EXCEPT ![q] = 1]
         /\ result' = result
    ELSE /\ pc' = [pc EXCEPT ![q] = "done"]
         /\ tool_results' = tool_results
         /\ block_idx' = block_idx
         /\ result' = [result EXCEPT ![q] = ExtractFinal(response)]

base_params_after_update(api_params) == api_params

\* lines 79-83: {**self.base_params, ...} reads self.base_params and leaves it
\* as __init__ set it
base_params_after(api_params) == instance_base_params

assistant_turn_invocations_only(response) ==
    [role |-> "assistant", content |-> SelectSeq(response.content, IsToolUse)]

\* lines 122 and 180: the response's content is recorded as the assistant turn
assistant_turn(response) == [role |-> "assistant", content |-> response.content]

enters_tool_loop_without_manager(response, tm) == response.stop_reason = "tool_use"

\* line 94: response.stop_reason == "tool_use" and tool_manager
enters_tool_loop(response, tm) == response.stop_reason = "tool_use" /\ tm

api_params_shared(q, api_params) == [p \in Procs |-> api_params]

\* lines 79-83: api_params is a new dictionary of this call
api_params_own(q, api_params) == [base_params EXCEPT ![q] = api_params]

\* lines 54-98 and, when the first response asks for tools, lines 113-127
GenerateResponse(q, query, conversation_history, tools, tm, response) ==
    LET api_params == ApiParams(query, conversation_history, tools) IN
    /\ pc[q] = "idle"
    /\ calls' = [calls EXCEPT ![q] = <<[kwargs |-> api_params, round |-> 0, response |-> response]>>]
    /\ execs' = [execs EXCEPT ![q] = <<>>]
    /\ base_params' = api_params_own(q, api_params)
    /\ args' = [args EXCEPT ![q] = [query |-> query,
                                    conversation_history |-> conversation_history,
                                    tools |-> tools, tool_manager |-> tm]]
    /\ instance_base_params' = base_params_after(api_params)
    /\ tool_manager' = [tool_manager EXCEPT ![q] = tm]
    /\ current_response' = [current_response EXCEPT ![q] = response]
    /\ UNCHANGED MAX_TOOL_ROUNDS
    /\ IF response = ProviderFault
       THEN /\ pc' = [pc EXCEPT ![q] = "failed"]
            /\ result' = [result EXCEPT ![q] = ProviderRaises]
            /\ messages' = [messages EXCEPT ![q] = <<>>]
            /\ current_round' = [current_round EXCEPT ![q] = 0]
            /\ UNCHANGED <<tool_results, block_idx>>
       ELSE IF enters_tool_loop(response, tm)
       THEN /\ current_round' = [current_round EXCEPT ![q] = 1]
            /\ messages' = [messages EXCEPT ![q] =
                   Append(api_params.messages,
                          assistant_turn(response))]
            /\ WhileTest(q, response, 1)
       ELSE \* line 98 is reached: DONE by the direct path
            /\ pc' = [pc EXCEPT ![q] = "done"]
            /\ result' = [result EXCEPT ![q] = DirectReturn(response)]
            /\ messages' = [messages EXCEPT ![q] = <<>>]
            /\ current_round' = [current_round EXCEPT ![q] = 0]
            /\ UNCHANGED <<tool_results, block_idx>>

ToolResult_by_name(content_block, outcome) ==
    IF outcome.kind = "return"
    THEN [type |-> "tool_result", tool_use_id |-> content_block.name,
          content |-> outcome.text]
    ELSE [type |-> "tool_result", tool_use_id |-> content_block.name,
          content |-> <<"Error executing tool: ">> \o outcome.text,
          is_error |-> TRUE]

ToolResult_always_flagged(content_block, outcome) ==
    [type |-> "tool_result", tool_use_id |-> content_block.id,
     content |-> IF outcome.kind = "return" THEN outcome.text
                 ELSE <<"Error executing tool: ">> \o outcome.text,
     is_error |-> TRUE]

\* lines 138-150: the entry appended to tool_results
ToolResult(content_block, outcome) ==
    IF outcome.kind = "return"
    THEN [type |-> "tool_result", tool_use_id |-> content_block.id,
          content |-> outcome.text]
    ELSE [type |-> "tool_result", tool_use_id |-> content_block.id,
          content |-> <<"Error executing tool: ">> \o outcome.text,
          is_error |-> TRUE]

\* lines 130-150: one iteration of the for loop over current_response.content
ExecuteBlock(q, outcome) ==
    /\ pc[q] = "dispatch"
    /\ block_idx[q] <= Len(current_response[q].content)
    /\ LET content_block == current_response[q].content[block_idx[q]] IN
       \/ /\ IsToolUse(content_block)
          /\ outcome \in (IF caller[q] = "query"
                          THEN RegistryOutcomes(content_block.name)
                          ELSE MockOutcomes)
          /\ last_sources' = (IF outcome.populates THEN outcome.sources
                              ELSE last_sources)
          /\ execs' = [execs EXCEPT ![q] = Append(@,
                 [round |-> current_round[q], id |-> content_block.id,
                  name |-> content_block.name, input |-> content_block.input,
                  outcome |-> outcome])]
          /\ tool_results' = [tool_results EXCEPT ![q] =
                 Append(@, ToolResult(content_block, outcome))]
       \/ /\ ~IsToolUse(content_block)
          /\ outcome = Returns(<<"result">>)
          /\ UNCHANGED <<execs, tool_results, last_sources>>
    /\ block_idx' = [block_idx EXCEPT ![q] = @ + 1]
    /\ UNCHANGED <<MAX_TOOL_ROUNDS, pc, base_params, args, instance_base_params, tool_manager, messages,
                   current_round, current_response, result, calls, caller, sources,
                   manager_calls, query_vars>>

keep_tools_le(round) == round <= MAX_TOOL_ROUNDS
keep_tools_early(round) == round + 1 < MAX_TOOL_ROUNDS

\* line 158: whether the follow-up call keeps the tools
keep_tools(round) == round < MAX_TOOL_ROUNDS

\* line 164: base_params["tools"] raises KeyError when the key is absent
follow_up_defined(q) ==
    keep_tools(current_round[q]) => "tools" \in DOMAIN base_params[q]

follow_up_params_policy_only(q, msgs) ==
    LET p == [model |-> instance_base_params.model,
              temperature |-> instance_base_params.temperature,
              max_tokens |-> instance_base_params.max_tokens,
              messages |-> msgs,
              system |-> SYSTEM_PROMPT]
    IN IF keep_tools(current_round[q])
       THEN p @@ [tools |-> base_params[q].tools, tool_choice |-> [type |-> "auto"]]
       ELSE p

follow_up_params_first_schema(q, msgs) ==
    LET p == [model |-> instance_base_params.model,
              temperature |-> instance_base_params.temperature,
              max_tokens |-> instance_base_params.max_tokens,
              messages |-> msgs,
              system |-> base_params[q].system]
    IN IF keep_tools(current_round[q])
       THEN p @@ [tools |-> <<Head(base_params[q].tools)>>, tool_choice |-> [type |-> "auto"]]
       ELSE p

\* lines 156-173: the parameters of the follow-up call
follow_up_params(q, msgs) ==
    LET p == [model |-> instance_base_params.model,
              temperature |-> instance_base_params.temperature,
              max_tokens |-> instance_base_params.max_tokens,
              messages |-> msgs,
              system |-> base_params[q].system]
    IN IF keep_tools(current_round[q])
       THEN p @@ [tools |-> base_params[q].tools, tool_choice |-> [type |-> "auto"]]
       ELSE p

WithToolResults_rewritten(q) ==
    IF tool_results[q] # <<>>
    THEN Append(Tail(messages[q]), [role |-> "user", content |-> tool_results[q]])
    ELSE messages[q]

\* lines 152-154
WithToolResults(q) ==
    IF tool_results[q] # <<>>
    THEN Append(messages[q], [role |-> "user", content |-> tool_results[q]])
    ELSE messages[q]

next_round_every_call(q, response) == current_round[q] + 1

\* lines 179-181: current_round += 1 when the follow-up response asks for tools
next_round(q, response) ==
    IF response.stop_reason = "tool_use" THEN current_round[q] + 1 ELSE current_round[q]

for_loop_over_early(q) == block_idx[q] >= Len(current_response[q].content)

\* lines 130-150: the for loop has gone through every block of the response
for_loop_over(q) == block_idx[q] > Len(current_response[q].content)

\* lines 152-182 and the while test that follows, lines 127 and 184-191
FollowUp(q, response) ==
    /\ pc[q] = "dispatch"
    /\ for_loop_over(q)
    /\ UNCHANGED <<MAX_TOOL_ROUNDS, base_params, args, instance_base_params, tool_manager, execs,
                   caller, last_sources, sources, manager_calls, query_vars>>
    /\ IF ~follow_up_defined(q)
       THEN \* base_params["tools"] raises KeyError
            /\ response = ProviderFault
            /\ messages' = [messages EXCEPT ![q] = WithToolResults(q)]
            /\ pc' = [pc EXCEPT ![q] = "failed"]
            /\ result' = [result EXCEPT ![q] = [kind |-> "raise", value |-> "KeyError"]]
            /\ UNCHANGED <<current_round, current_response, tool_results, block_idx, calls>>
       ELSE /\ calls' = [calls EXCEPT ![q] = Append(@,
                   [kwargs |-> follow_up_params(q, WithToolResults(q)),
                    round |-> current_round[q], response |-> response])]
            /\ IF response = ProviderFault
               THEN /\ messages' = [messages EXCEPT ![q] = WithToolResults(q)]
                    /\ pc' = [pc EXCEPT ![q] = "failed"]
                    /\ result' = [result EXCEPT ![q] = ProviderRaises]
                    /\ UNCHANGED <<current_round, current_response, tool_results, block_idx>>
               ELSE /\ current_response' = [current_response EXCEPT ![q] = response]
                    /\ messages' = [messages EXCEPT ![q] =
                           IF response.stop_reason = "tool_use"
                           THEN Append(WithToolResults(q),
                                       assistant_turn(response))
                           ELSE WithToolResults(q)]
                    /\ current_round' = [current_round EXCEPT ![q] = next_round(q, response)]
                    /\ WhileTest(q, response, next_round(q, response))

\* a direct call of generate_response, with a tool manager of the caller's
DirectCall(q, query, conversation_history, tools, tm, response) ==
    /\ GenerateResponse(q, query, conversation_history, tools, tm, response)
    /\ caller' = [caller EXCEPT ![q] = "direct"]
    /\ UNCHANGED <<last_sources, sources, manager_calls, query_vars>>

\* the prompt query() hands to generate_response
Prompt(text) == <<"Answer this question about course materials: ">> \o text

\* session_manager.get_conversation_history(session_id), as query() logs it
GetConversationHistory(session_id, history) ==
    [method |-> "get_conversation_history", session_id |-> session_id,
     returned |-> history]

\* session_manager.add_exchange(session_id, query, answer), as query() logs it
AddExchangeCall(session_id, text, answer) ==
    [method |-> "add_exchange", session_id |-> session_id, query |-> text,
     answer |-> answer]

Query_reads_always(q, text, session_id, conversation_history, response) ==
    /\ session_id = None => conversation_history = None
    /\ GenerateResponse(q, Prompt(text), conversation_history, TOOLS, TRUE, response)
    /\ caller' = [caller EXCEPT ![q] = "query"]
    /\ request' = [request EXCEPT ![q] = [text |-> text, session_id |-> session_id]]
    /\ session_calls' = [session_calls EXCEPT ![q] =
           <<GetConversationHistory(session_id, conversation_history)>>]
    /\ UNCHANGED <<last_sources, sources, manager_calls>>

\* query(text, session_id): with a session id the session's history is read;
\* generate_response is called with the prompt, that history (None without a
\* session), the schemas of the Tool Registry and the registry itself
Query(q, text, session_id, conversation_history, response) ==
    /\ session_id = None => conversation_history = None
    /\ GenerateResponse(q, Prompt(text), conversation_history, TOOLS, TRUE, response)
    /\ caller' = [caller EXCEPT ![q] = "query"]
    /\ request' = [request EXCEPT ![q] = [text |-> text, session_id |-> session_id]]
    /\ session_calls' = [session_calls EXCEPT ![q] =
           IF session_id = None THEN <<>>
           ELSE <<GetConversationHistory(session_id, conversation_history)>>]
    /\ UNCHANGED <<last_sources, sources, manager_calls>>

get_last_sources_none == <<>>

\* ToolManager.get_last_sources(): what collect_sources() returns
get_last_sources == last_sources

CollectSources_twice(q) ==
    /\ caller[q] = "query"
    /\ pc[q] \in {"done", "failed", "collected"}
    /\ Len(manager_calls[q]) < 2
    /\ sources' = [sources EXCEPT ![q] = get_last_sources]
    /\ manager_calls' = [manager_calls EXCEPT ![q] = Append(@,
           [method |-> "get_last_sources", returned |-> get_last_sources])]
    /\ pc' = [pc EXCEPT ![q] = "collected"]
    /\ UNCHANGED <<MAX_TOOL_ROUNDS, base_params, args, instance_base_params, tool_manager, messages, current_round,
                   current_response, tool_results, block_idx, result, calls, execs,
                   caller, last_sources, query_vars>>

\* query(): collect_sources() on the Tool Registry
CollectSources(q) ==
    /\ caller[q] = "query"
    /\ pc[q] \in {"done", "failed"}
    /\ sources' = [sources EXCEPT ![q] = get_last_sources]
    /\ manager_calls' = [manager_calls EXCEPT ![q] = Append(@,
           [method |-> "get_last_sources", returned |-> get_last_sources])]
    /\ pc' = [pc EXCEPT ![q] = "collected"]
    /\ UNCHANGED <<MAX_TOOL_ROUNDS, base_params, args, instance_base_params, tool_manager, messages, current_round,
                   current_response, tool_results, block_idx, result, calls, execs,
                   caller, last_sources, query_vars>>

ClearSources_keep(q) ==
    /\ caller[q] = "query"
    /\ pc[q] = "collected"
    /\ last_sources' = last_sources
    /\ manager_calls' = [manager_calls EXCEPT ![q] = Append(@, [method |-> "reset_sources"])]
    /\ pc' = [pc EXCEPT ![q] = "cleared"]
    /\ UNCHANGED <<MAX_TOOL_ROUNDS, base_params, args, instance_base_params, tool_manager, messages, current_round,
                   current_response, tool_results, block_idx, result, calls, execs,
                   caller, sources, query_vars>>

\* query(): clear_sources() on the Tool Registry
ClearSources(q) ==
    /\ caller[q] = "query"
    /\ pc[q] = "collected"
    /\ last_sources' = <<>>
    /\ manager_calls' = [manager_calls EXCEPT ![q] = Append(@, [method |-> "reset_sources"])]
    /\ pc' = [pc EXCEPT ![q] = "cleared"]
    /\ UNCHANGED <<MAX_TOOL_ROUNDS, base_params, args, instance_base_params, tool_manager, messages, current_round,
                   current_response, tool_results, block_idx, result, calls, execs,
                   caller, sources, query_vars>>

\* query() has an exchange to record: a session id and an answer
ExchangeDue(q) ==
    /\ request[q].session_id # None
    /\ result[q].kind = "return"

\* query(): session_manager.add_exchange(session_id, query, response), with the
\* text query() was called with
AddExchange(q) ==
    /\ caller[q] = "query"
    /\ pc[q] = "cleared"
    /\ ExchangeDue(q)
    /\ Len(session_calls[q]) = 1
    /\ session_calls' = [session_calls EXCEPT ![q] = Append(@,
           AddExchangeCall(request[q].session_id, request[q].text, result[q].value))]
    /\ UNCHANGED <<orch_vars, caller, last_sources, sources, manager_calls, request>>

\* the call has returned or raised: its frame is discarded
Return(q) ==
    /\ \/ caller[q] = "direct" /\ pc[q] \in {"done", "failed"}
       \/ /\ caller[q] = "query"
          /\ pc[q] = "cleared"
          /\ ExchangeDue(q) => Len(session_calls[q]) = 2
    /\ pc' = [pc EXCEPT ![q] = "idle"]
    /\ base_params' = [base_params EXCEPT ![q] = <<>>]
    /\ args' = [args EXCEPT ![q] = no_args]
    /\ tool_manager' = [tool_manager EXCEPT ![q] = FALSE]
    /\ messages' = [messages EXCEPT ![q] = <<>>]
    /\ current_round' = [current_round EXCEPT ![q] = 0]
    /\ current_response' = [current_response EXCEPT ![q] = no_response]
    /\ tool_results' = [tool_results EXCEPT ![q] = <<>>]
    /\ block_idx' = [block_idx EXCEPT ![q] = 0]
    /\ result' = [result EXCEPT ![q] = no_result]
    /\ calls' = [calls EXCEPT ![q] = <<>>]
    /\ execs' = [execs EXCEPT ![q] = <<>>]
    /\ caller' = [caller EXCEPT ![q] = "none"]
    /\ sources' = [sources EXCEPT ![q] = <<>>]
    /\ manager_calls' = [manager_calls EXCEPT ![q] = <<>>]
    /\ request' = [request EXCEPT ![q] = no_request]
    /\ session_calls' = [session_calls EXCEPT ![q] = <<>>]
    /\ UNCHANGED <<MAX_TOOL_ROUNDS, last_sources, instance_base_params>>

Step(q) ==
    \/ \E query \in Queries, h \in Histories, tools \in ToolArgs, tm \in BOOLEAN,
          response \in ProviderOutcomes :
          DirectCall(q, query, h, tools, tm, response)
    \/ \E text \in Queries, session_id \in SessionIds, h \in Histories,
          response \in ProviderOutcomes :
          Query(q, text, session_id, h, response)
    \/ \E outcome \in ToolOutcomes : ExecuteBlock(q, outcome)
    \/ \E response \in ProviderOutcomes : FollowUp(q, response)
    \/ CollectSources(q)
    \/ ClearSources(q)
    \/ AddExchange(q)
    \/ Return(q)

Next == \E q \in SeqProcs : Step(q)

Spec == Init /\ [][Next]_vars

-----------------------------------------------------------------------------
(* Vocabulary of the properties *)

HasTools(kwargs) == "tools" \in DOMAIN kwargs
HasToolChoice(kwargs) == "tool_choice" \in DOMAIN kwargs
ToolUses(content) == SelectSeq(content, IsToolUse)
ExecsOfRound(q, r) == SelectSeq(execs[q], LAMBDA e : e.round = r)
Ids(blocks) == [i \in 1..Len(blocks) |-> blocks[i].id]
\* generate_response has returned, or an exception has left it
Returned(q) == result[q].kind = "return"
Failed(q) == result[q].kind = "raise"
Finished(q) == Returned(q) \/ Failed(q)
FollowUpCalls(q) == 2..Len(calls[q])
Raised(e) == e.outcome.kind = "raise"

-----------------------------------------------------------------------------
(* Round limit *)

\* C1: for every max_rounds >= 1 and every sequence of provider responses,
\* the round counter never exceeds max_rounds.
C1_RoundNeverExceedsMax ==
    \A q \in Procs : MAX_TOOL_ROUNDS >= 1 => current_round[q] <= MAX_TOOL_ROUNDS

\* C2: a query never makes more than max_rounds + 1 provider calls, and it
\* never ends before DONE unless a provider call failed (IndexError and
\* AttributeError are raised by the extraction of the answer, in DONE).
C2_ReachesDone ==
    \A q \in Procs :
        /\ Len(calls[q]) <= MAX_TOOL_ROUNDS + 1
        /\ Failed(q) =>
              result[q].value \in {"ProviderFault", "IndexError", "AttributeError"}

\* C3: a follow-up call made after the dispatches of round r carries the tool
\* schemas of the first call with tool_choice auto iff r < max_rounds; when
\* r = max_rounds it carries neither tools nor tool_choice.
C3_FollowUpTools ==
    \A q \in Procs : \A k \in FollowUpCalls(q) :
        LET c == calls[q][k] IN
        /\ c.round \in 1..MAX_TOOL_ROUNDS
        /\ HasTools(c.kwargs) <=> c.round < MAX_TOOL_ROUNDS
        /\ HasToolChoice(c.kwargs) <=> c.round < MAX_TOOL_ROUNDS
        /\ HasTools(c.kwargs) =>
              /\ c.kwargs.tools = calls[q][1].kwargs.tools
              /\ c.kwargs.tool_choice = [type |-> "auto"]
        /\ c.round = MAX_TOOL_ROUNDS => ~HasTools(c.kwargs) /\ ~HasToolChoice(c.kwargs)

C3_Witness ==
    \E q \in Procs :
        /\ Len(calls[q]) >= 3
        /\ HasTools(calls[q][2].kwargs)
        /\ ~HasTools(calls[q][3].kwargs)

\* The provider asked for tools in every response to a call that offered them.
AlwaysAsksForTools(q) ==
    /\ tool_manager[q]
    /\ calls[q] # <<>>
    /\ HasTools(calls[q][1].kwargs)
    /\ \A k \in 1..Len(calls[q]) :
          HasTools(calls[q][k].kwargs) => calls[q][k].response.stop_reason = "tool_use"

\* C4: with max_rounds >= 1, a finished query in which the provider asked for
\* tools in every response that was offered tool schemas made exactly
\* max_rounds + 1 provider calls, and only the last of them is without schemas.
C4_MaxRoundsCalls ==
    \A q \in Procs :
        (MAX_TOOL_ROUNDS >= 1 /\ Returned(q) /\ AlwaysAsksForTools(q)) =>
            /\ Len(calls[q]) = MAX_TOOL_ROUNDS + 1
            /\ ~HasTools(calls[q][Len(calls[q])].kwargs)
            /\ \A k \in 1..(Len(calls[q]) - 1) : HasTools(calls[q][k].kwargs)

C4_Witness ==
    \E q \in Procs :
        /\ MAX_TOOL_ROUNDS = 2 /\ Returned(q) /\ AlwaysAsksForTools(q)
        /\ Len(calls[q]) = 3

\* C5: tools are dispatched in at most max_rounds rounds; once the follow-up
\* call without tool schemas has been made nothing more is dispatched, whatever
\* its response holds; with at most one invocation per response at most
\* max_rounds tool executions happen.
C5_DispatchRoundsBounded ==
    \A q \in Procs :
        /\ \A i \in 1..Len(execs[q]) : execs[q][i].round \in 1..MAX_TOOL_ROUNDS
        /\ Cardinality({execs[q][i].round : i \in 1..Len(execs[q])}) <= MAX_TOOL_ROUNDS
        /\ \A k \in FollowUpCalls(q) :
              ~HasTools(calls[q][k].kwargs) =>
                  /\ pc[q] # "dispatch"
                  /\ \A i \in 1..Len(execs[q]) : execs[q][i].round <= calls[q][k].round
        /\ (\A k \in 1..Len(calls[q]) :
               Len(ToolUses(calls[q][k].response.content)) <= 1)
           => Len(execs[q]) <= MAX_TOOL_ROUNDS

C5_Witness ==
    \E q \in Procs :
        /\ MAX_TOOL_ROUNDS = 2 /\ pc[q] = "done" /\ Len(calls[q]) = 3
        /\ calls[q][3].response.stop_reason = "tool_use"
        /\ ToolUses(calls[q][3].response.content) # <<>>
        /\ Len(execs[q]) = 2

\* C7: with max_rounds > 1, when the first response asks for tools and the
\* second does not, exactly two provider calls occur, the invocations of the
\* first response are dispatched once each, and the second call carries the
\* tool schemas and tool_choice auto.
C7_OneToolRound ==
    \A q \in Procs :
        (/\ MAX_TOOL_ROUNDS > 1
         /\ Len(calls[q]) >= 2
         /\ calls[q][1].response.stop_reason = "tool_use"
         /\ calls[q][2].response.stop_reason = "end_turn") =>
            /\ Len(calls[q]) = 2
            /\ Returned(q)
            /\ Ids(execs[q]) = Ids(ToolUses(calls[q][1].response.content))
            /\ HasTools(calls[q][2].kwargs)
            /\ calls[q][2].kwargs.tools = calls[q][1].kwargs.tools
            /\ HasToolChoice(calls[q][2].kwargs)
            /\ calls[q][2].kwargs.tool_choice = [type |-> "auto"]

C7_Witness ==
    \E q \in Procs :
        /\ MAX_TOOL_ROUNDS > 1
        /\ Len(calls[q]) = 2
        /\ calls[q][1].response.stop_reason = "tool_use"
        /\ calls[q][2].response.stop_reason = "end_turn"
        /\ Len(execs[q]) = 2

-----------------------------------------------------------------------------
(* Tool dispatch *)

\* The entry the code records for a dispatch that raised.
ErrorEntry(e) ==
    [type |-> "tool_result", tool_use_id |-> e.id,
     content |-> <<"Error executing tool: ">> \o e.outcome.text, is_error |-> TRUE]

\* The result turn sent with the follow-up call k.
ResultTurn(q, k) ==
    LET msgs == calls[q][k].kwargs.messages IN msgs[Len(msgs)]

\* The follow-up call that ends round r has been made.
FollowUpMade(q, r) == \E k \in FollowUpCalls(q) : calls[q][k].round = r

\* C8: when a tool dispatch raises, the orchestrator does not raise: the
\* invocation gets an error-flagged result with its correlation identifier and
\* content "Error executing tool: <details>", and the query goes on to the
\* next provider call.
C8_ToolErrorContained ==
    \A q \in Procs : \A r \in 1..(MaxRoundsBound + 1) :
        LET es == ExecsOfRound(q, r) IN
        \A j \in 1..Len(es) :
            Raised(es[j]) =>
                /\ (r = current_round[q] /\ pc[q] = "dispatch")
                      => tool_results[q][j] = ErrorEntry(es[j])
                /\ \A k \in FollowUpCalls(q) :
                      calls[q][k].round = r
                          => ResultTurn(q, k).content[j] = ErrorEntry(es[j])
                /\ Finished(q) => FollowUpMade(q, r)

\* C9: in a round with several invocations of which any subset raise, every
\* invocation is dispatched, the result turn holds one entry per invocation,
\* error-flagged exactly for the failed ones, and the following provider call
\* is made.
C9_SiblingsNotCancelled ==
    \A q \in Procs : \A r \in 1..(MaxRoundsBound + 1) :
        LET es == ExecsOfRound(q, r) IN
        (Len(es) >= 2 /\ \E j \in 1..Len(es) : Raised(es[j])) =>
            /\ \A k \in FollowUpCalls(q) :
                  calls[q][k].round = r =>
                      LET turn == ResultTurn(q, k)
                          invs == ToolUses(calls[q][k - 1].response.content) IN
                      /\ Ids(es) = Ids(invs)
                      /\ turn.role = "user"
                      /\ Len(turn.content) = Len(invs)
                      /\ \A j \in 1..Len(invs) :
                            /\ turn.content[j].tool_use_id = invs[j].id
                            /\ ("is_error" \in DOMAIN turn.content[j]) <=> Raised(es[j])
            /\ Finished(q) => FollowUpMade(q, r)

\* C10: in every message list sent to the provider each result turn follows
\* an assistant turn, holds exactly one result per invocation of that turn, in
\* the order of the invocations, and each result's correlation identifier is
\* that of exactly one invocation of the turn; every assistant turn with
\* invocations is followed by its result turn; each invocation is executed
\* exactly once.
C10_ResultsMatchInvocations ==
    \A q \in Procs : \A k \in 1..Len(calls[q]) :
        LET msgs == calls[q][k].kwargs.messages IN
        /\ \A m \in 2..Len(msgs) :
              msgs[m].role = "user" =>
                  LET invs == ToolUses(msgs[m - 1].content) IN
                  /\ msgs[m - 1].role = "assistant"
                  /\ Len(msgs[m].content) = Len(invs)
                  /\ \A j \in 1..Len(invs) :
                        /\ msgs[m].content[j].type = "tool_result"
                        /\ msgs[m].content[j].tool_use_id = invs[j].id
                        /\ Cardinality({i \in 1..Len(invs) :
                               invs[i].id = msgs[m].content[j].tool_use_id}) = 1
        /\ \A m \in 1..Len(msgs) :
              (msgs[m].role = "assistant" /\ HasToolUse(msgs[m].content)) =>
                  m < Len(msgs) /\ msgs[m + 1].role = "user"
        /\ k >= 2 =>
              Ids(ExecsOfRound(q, calls[q][k].round))
                  = Ids(ToolUses(calls[q][k - 1].response.content))

C10_Witness ==
    \E q \in Procs :
        /\ Len(calls[q]) = 3
        /\ Len(ResultTurn(q, 2).content) = 2
        /\ Len(ResultTurn(q, 3).content) = 1

-----------------------------------------------------------------------------
(* Direct answers *)

\* The first provider response of the call is terminal.
FirstResponseTerminal(q) ==
    /\ calls[q] # <<>>
    /\ calls[q][1].response # ProviderFault
    /\ calls[q][1].response.stop_reason # "tool_use"

\* C6: when the first provider response is terminal exactly one provider call
\* occurs, no tool is dispatched, the answer is the text of that response (its
\* first segment), and the citations query() returns are empty, whatever tool
\* schemas and tool manager were supplied.
C6_TerminalFirstResponse ==
    \A q \in Procs :
        FirstResponseTerminal(q) =>
            LET first == calls[q][1].response IN
            /\ Len(calls[q]) = 1
            /\ execs[q] = <<>>
            /\ pc[q] \notin {"dispatch", "failed"}
            /\ first.content # <<>> =>
                  result[q] = [kind |-> "return", value |-> first.content[1].text]
            /\ pc[q] \in {"collected", "cleared"} => sources[q] = <<>>

C6_Witness ==
    \E q \in Procs :
        /\ FirstResponseTerminal(q)
        /\ caller[q] = "query" /\ tool_manager[q] /\ HasTools(calls[q][1].kwargs)
        /\ pc[q] = "cleared"
        /\ result[q] = [kind |-> "return", value |-> "more"]
        /\ sources[q] = <<>>

-----------------------------------------------------------------------------
(* What remains of C2, C8 and C9 *)

\* Tool schemas were supplied whenever a tool manager was.
SchemasWithManager ==
    \A q \in Procs :
        (calls[q] # <<>> /\ tool_manager[q]) => HasTools(calls[q][1].kwargs)

\* In the calls that supply tool schemas together with the tool manager, no
\* call ends before DONE except by a provider fault, every raised dispatch is
\* recorded and followed by the provider call of its round.
HoldsWithSchemas ==
    SchemasWithManager =>
        /\ C2_ReachesDone
        /\ C8_ToolErrorContained
        /\ C9_SiblingsNotCancelled

-----------------------------------------------------------------------------
(* Conversation state *)

Messages(q, k) == calls[q][k].kwargs.messages
IsStrictPrefix(s, t) == Len(s) < Len(t) /\ SubSeq(t, 1, Len(s)) = s
IsPrefix(s, t) == Len(s) <= Len(t) /\ SubSeq(t, 1, Len(s)) = s

\* C11: within one query the message list sent on provider call k+1 has the
\* message list sent on call k as a strict prefix, and the list the
\* orchestrator is building extends the list of the last call: no earlier turn
\* is rewritten, reordered or removed.
C11_StateOnlyGrows ==
    \A q \in Procs :
        /\ \A k \in 1..(Len(calls[q]) - 1) :
              IsStrictPrefix(Messages(q, k), Messages(q, k + 1))
        /\ (calls[q] # <<>> /\ messages[q] # <<>>) =>
              IsPrefix(Messages(q, Len(calls[q])), messages[q])

C11_Witness ==
    \E q \in Procs :
        /\ Len(calls[q]) = 3
        /\ Len(Messages(q, 1)) = 1
        /\ Len(Messages(q, 2)) = 3
        /\ Len(Messages(q, 3)) = 5


Role(k) == IF k % 2 = 1 THEN "user" ELSE "assistant"

\* C12: the message list sent on the k-th provider call has exactly 2k-1
\* turns whose roles alternate user, assistant, ..., user, every round's tool
\* results being one single user turn.
C12_TurnsAlternate ==
    \A q \in Procs : \A k \in 1..Len(calls[q]) :
        LET msgs == Messages(q, k) IN
        /\ Len(msgs) = 2 * k - 1
        /\ \A m \in 1..Len(msgs) : msgs[m].role = Role(m)

\* Every response with stop reason tool_use received so far holds an invocation.
ToolUseHasInvocation ==
    \A q \in Procs : \A k \in 1..Len(calls[q]) :
        calls[q][k].response.stop_reason = "tool_use"
            => HasToolUse(calls[q][k].response.content)

\* The turns alternate as long as every tool_use response holds an invocation.
AlternateWithInvocations == ToolUseHasInvocation => C12_TurnsAlternate

-----------------------------------------------------------------------------
(* The answer *)

\* the provider's final turn: the response to the last provider call
FinalTurn(q) == calls[q][Len(calls[q])].response
HasText(content) == \E i \in 1..Len(content) : hasattr_text(content[i])

\* DONE was reached: the call ended, and neither by a provider fault nor by
\* the KeyError of line 164, which both end it before DONE.
ReachedDone(q) ==
    /\ Finished(q)
    /\ result[q] \notin {[kind |-> "raise", value |-> "ProviderFault"],
                         [kind |-> "raise", value |-> "KeyError"]}

\* DONE was reached from _handle_tool_execution (lines 184-191).
DoneAfterToolRounds(q) == ReachedDone(q) /\ current_round[q] >= 1

\* C13: on reaching DONE, by the direct path as well as after tool rounds, the
\* answer returned is the text of the first textual segment of the provider's
\* final turn, also when non-text segments precede it.
C13_FirstTextReturned ==
    \A q \in Procs :
        (ReachedDone(q) /\ HasText(FinalTurn(q).content)) =>
            result[q] = [kind |-> "return", value |-> FirstText(FinalTurn(q).content)]

\* After tool rounds the answer is the first textual segment of the final turn.
FirstTextAfterToolRounds ==
    \A q \in Procs :
        (DoneAfterToolRounds(q) /\ HasText(FinalTurn(q).content)) =>
            result[q] = [kind |-> "return", value |-> FirstText(FinalTurn(q).content)]


Fallback == [kind |-> "return", value |-> "Unable to generate response."]

\* C14: if the provider's final turn holds no textual segment, the
\* orchestrator returns the fallback message instead of failing.
C14_FallbackWithoutText ==
    \A q \in Procs :
        (ReachedDone(q) /\ ~HasText(FinalTurn(q).content)) => result[q] = Fallback

\* After tool rounds a final turn without textual segment gives the fallback.
FallbackAfterToolRounds ==
    \A q \in Procs :
        (DoneAfterToolRounds(q) /\ ~HasText(FinalTurn(q).content)) => result[q] = Fallback

-----------------------------------------------------------------------------
(* Provider faults *)

\* a provider call of q has failed
ProviderFailed(q) ==
    \E k \in 1..Len(calls[q]) : calls[q][k].response = ProviderFault

\* C15: a failure of a provider call, the first or a follow-up call, leaves
\* generate_response as a failure: the failed call is the last provider call
\* of the query (no retry, no further call), no tool is dispatched after it and
\* no answer is returned.
C15_ProviderFaultPropagates ==
    /\ [](\A q \in Procs : \A k \in 1..Len(calls[q]) :
            calls[q][k].response = ProviderFault =>
                /\ k = Len(calls[q])
                /\ result[q] = [kind |-> "raise", value |-> "ProviderFault"]
                /\ pc[q] \notin {"dispatch", "done"})
    /\ [][\A q \in Procs :
            ProviderFailed(q) =>
                \/ calls'[q] = calls[q] /\ execs'[q] = execs[q] /\ result'[q] = result[q]
                \/ calls'[q] = <<>> /\ execs'[q] = <<>> /\ result'[q] = no_result]_vars

C15_Witness ==
    \E q \in Procs :
        /\ Len(calls[q]) = 2
        /\ calls[q][2].response = ProviderFault
        /\ execs[q] # <<>>
        /\ Failed(q)

-----------------------------------------------------------------------------
(* Citations *)

Methods(log) == [i \in 1..Len(log) |-> log[i].method]
CollectThenClear == <<"get_last_sources", "reset_sources">>

\* C16: every call of query() calls get_last_sources exactly once and
\* reset_sources exactly once, the former before the latter and both after
\* generate_response has ended, also when no tool was used; query() does not
\* return before both calls are made, and no other caller touches the pool.
C16_CollectThenClearOnce ==
    /\ [](\A q \in Procs :
            /\ IsPrefix(Methods(manager_calls[q]), CollectThenClear)
            /\ manager_calls[q] # <<>> => (caller[q] = "query" /\ Finished(q))
            /\ pc[q] = "collected" <=> Methods(manager_calls[q]) = <<"get_last_sources">>
            /\ pc[q] = "cleared" <=> Methods(manager_calls[q]) = CollectThenClear)
    /\ [][\A q \in Procs :
            (caller[q] = "query" /\ caller'[q] = "none")
                => Methods(manager_calls[q]) = CollectThenClear]_vars

C16_Witness ==
    \E q \in Procs :
        /\ caller[q] = "query" /\ pc[q] = "cleared"
        /\ execs[q] = <<>> /\ Returned(q)
        /\ Methods(manager_calls[q]) = CollectThenClear


\* the executions of q that populated the citation pool
PopulatingExecs(q) == SelectSeq(execs[q], LAMBDA e : e.outcome.populates)
Elems(s) == { s[i] : i \in 1..Len(s) }
\* the citations produced by the searches of q
ProducedBy(q) ==
    UNION { Elems(PopulatingExecs(q)[i].outcome.sources) : i \in 1..Len(PopulatingExecs(q)) }

\* C17: the citations a query returns are citations produced by searches
\* executed during that query, whatever queries ran before on the same Tool
\* Registry (with or without tools, ended by an answer or by a fault): a query
\* without successful search returns none, and no query starts with a
\* populated pool.
C17_NoSourceLeak ==
    /\ \A q \in Procs :
          /\ Elems(sources[q]) \subseteq ProducedBy(q)
          /\ pc[q] = "collected" => Elems(last_sources) \subseteq ProducedBy(q)
    /\ (\A q \in Procs : pc[q] = "idle") => last_sources = <<>>

C17_Witness ==
    \E q \in Procs :
        /\ caller[q] = "query" /\ pc[q] = "cleared"
        /\ Failed(q)
        /\ PopulatingExecs(q) # <<>>
        /\ sources[q] = SampleSources
        /\ last_sources = <<>>

-----------------------------------------------------------------------------
(* The Tool Registry on its own: a user calls execute_tool, get_last_sources *)
(* and reset_sources in any order.                                          *)

\* Largest number of calls made on the Tool Registry.
MaxManagerCalls == 3

ToolInit == Init /\ MAX_TOOL_ROUNDS = MaxRoundsBound

\* ToolManager.execute_tool(name, query, course_name, lesson_number)
ExecuteTool(q, name, results, course_name, lesson_number) ==
    LET outcome == IF name = "search_course_content"
                   THEN CourseSearchTool_execute(results, course_name, lesson_number)
                   ELSE CourseOutlineTool_execute
    IN /\ Len(manager_calls[q]) < MaxManagerCalls
       /\ name = "get_course_outline" =>
             results = EmptyResults /\ course_name = None /\ lesson_number = None
       /\ last_sources' = (IF outcome.populates THEN outcome.sources ELSE last_sources)
       /\ manager_calls' = [manager_calls EXCEPT ![q] = Append(@,
              [method |-> "execute_tool", name |-> name, results |-> results,
               course_name |-> course_name, lesson_number |-> lesson_number,
               outcome |-> outcome])]
       /\ UNCHANGED <<orch_vars, caller, sources, query_vars>>

\* ToolManager.get_last_sources()
GetLastSources(q) ==
    /\ Len(manager_calls[q]) < MaxManagerCalls
    /\ sources' = [sources EXCEPT ![q] = get_last_sources]
    /\ manager_calls' = [manager_calls EXCEPT ![q] = Append(@,
           [method |-> "get_last_sources", returned |-> get_last_sources])]
    /\ UNCHANGED <<orch_vars, caller, last_sources, query_vars>>

\* ToolManager.reset_sources()
ResetSources(q) ==
    /\ Len(manager_calls[q]) < MaxManagerCalls
    /\ last_sources' = <<>>
    /\ manager_calls' = [manager_calls EXCEPT ![q] = Append(@, [method |-> "reset_sources"])]
    /\ UNCHANGED <<orch_vars, caller, sources, query_vars>>

ToolStep(q) ==
    \/ \E name \in Elems(TOOLS), results \in StoreResults,
          course_name \in CourseNames, lesson_number \in LessonNumbers :
          ExecuteTool(q, name, results, course_name, lesson_number)
    \/ GetLastSources(q)
    \/ ResetSources(q)

ToolNext == \E q \in SeqProcs : ToolStep(q)

ToolSpec == ToolInit /\ [][ToolNext]_vars

\* the call made on the Tool Registry is a content search
IsSearch(c) == c.method = "execute_tool" /\ c.name = "search_course_content"
\* ... that succeeded: the store matched documents
IsSuccessfulSearch(c) ==
    IsSearch(c) /\ c.results.error = None /\ c.results.documents # <<>>
\* the call changes the citation pool
WritesPool(c) == IsSuccessfulSearch(c) \/ c.method = "reset_sources"

\* the last call before position i that wrote the pool, 0 if there is none
RECURSIVE LastWrite(_, _)
LastWrite(log, i) ==
    IF i <= 1 THEN 0
    ELSE IF WritesPool(log[i - 1]) THEN i - 1
    ELSE LastWrite(log, i - 1)

\* C18: get_last_sources called after a successful search and before
\* reset_sources returns the full citation set of that search; called after
\* reset_sources with no search in between it returns the empty list.
C18_CollectBeforeClear ==
    \A q \in Procs : \A i \in 1..Len(manager_calls[q]) :
        LET log == manager_calls[q]
            w == LastWrite(log, i) IN
        (log[i].method = "get_last_sources" /\ w > 0) =>
            /\ IsSuccessfulSearch(log[w]) => log[i].returned = log[w].outcome.sources
            /\ IsSuccessfulSearch(log[w]) =>
                  Len(log[i].returned) = Len(log[w].results.documents)
            /\ log[w].method = "reset_sources" => log[i].returned = <<>>

C18_Witness ==
    \E q \in Procs :
        /\ Len(manager_calls[q]) = 3
        /\ IsSuccessfulSearch(manager_calls[q][1])
        /\ manager_calls[q][2].method = "reset_sources"
        /\ manager_calls[q][3] = [method |-> "get_last_sources", returned |-> <<>>]


\* the call just made on the Tool Registry of q (in the step's second state)
Called(q) == manager_calls'[q][Len(manager_calls'[q])]
CallMade(q) == manager_calls'[q] # manager_calls[q] /\ manager_calls'[q] # <<>>
IsErrorSearch(c) == IsSearch(c) /\ c.results.error # None

\* C19: a content search for which the store reports an error returns the
\* store's error message unchanged as its result text, and leaves the citation
\* list exactly as it was before the call.
C19_StoreErrorVerbatim ==
    /\ [](\A q \in Procs : \A i \in 1..Len(manager_calls[q]) :
            IsErrorSearch(manager_calls[q][i]) =>
                /\ manager_calls[q][i].outcome.kind = "return"
                /\ manager_calls[q][i].outcome.text = manager_calls[q][i].results.error)
    /\ [][\A q \in Procs :
            (CallMade(q) /\ IsErrorSearch(Called(q))) => last_sources' = last_sources]_vars

C19_Witness ==
    \E q \in Procs :
        /\ Len(manager_calls[q]) = 2
        /\ IsSuccessfulSearch(manager_calls[q][1])
        /\ IsErrorSearch(manager_calls[q][2])
        /\ manager_calls[q][2].outcome.text = <<"No course found matching 'X'">>
        /\ last_sources = SampleSources


IsEmptySearch(c) ==
    IsSearch(c) /\ c.results.error = None /\ c.results.documents = <<>>

\* the "no content found" message the filters call for
ExpectedNoContent(course_name, lesson_number) ==
    IF course_name = None /\ lesson_number = None
    THEN <<"No relevant content found", ".">>
    ELSE IF lesson_number = None
    THEN <<"No relevant content found", " in course '">> \o course_name \o <<"'", ".">>
    ELSE IF course_name = None
    THEN <<"No relevant content found", " in lesson ">> \o lesson_number \o <<".">>
    ELSE <<"No relevant content found", " in course '">> \o course_name
             \o <<"'", " in lesson ">> \o lesson_number \o <<".">>

\* C20: a content search that matches no document returns the "no content
\* found" message of the filters supplied (course only, lesson only, both,
\* neither) and adds no citation: an empty citation list stays empty.
C20_NoContentMessage ==
    /\ [](\A q \in Procs : \A i \in 1..Len(manager_calls[q]) :
            LET c == manager_calls[q][i] IN
            IsEmptySearch(c) =>
                /\ c.outcome.kind = "return"
                /\ c.outcome.text = ExpectedNoContent(c.course_name, c.lesson_number)
                /\ (/\ i = Len(manager_calls[q])
                    /\ \A j \in 1..(i - 1) : ~IsSuccessfulSearch(manager_calls[q][j]))
                       => last_sources = <<>>)
    /\ [][\A q \in Procs :
            (CallMade(q) /\ IsEmptySearch(Called(q))) => last_sources' = last_sources]_vars

C20_Witness ==
    \E q \in Procs :
        /\ Len(manager_calls[q]) = 2
        /\ IsEmptySearch(manager_calls[q][1])
        /\ manager_calls[q][1].course_name = <<"Test Course">>
        /\ manager_calls[q][1].lesson_number = None
        /\ manager_calls[q][1].outcome.text =
               <<"No relevant content found", " in course '", "Test Course", "'", ".">>
        /\ manager_calls[q][2] = [method |-> "get_last_sources", returned |-> <<>>]


\* the citation the claim calls for: label "<course title> - Lesson <n>", or
\* "<course title>" when the document has no lesson, and the store's link
ExpectedCitation(meta) ==
    IF meta.lesson_number = None
    THEN [label |-> <<meta.course_title>>, link |-> None]
    ELSE [label |-> <<meta.course_title, " - Lesson ">> \o meta.lesson_number,
          link |-> get_lesson_link(meta.course_title, meta.lesson_number)]

ExpectedCitations(results) ==
    [k \in 1..Len(results.documents) |-> ExpectedCitation(results.metadata[k])]

\* C21: a successful content search over n matched documents produces exactly
\* n citations, the i-th being that of the i-th matched document (its label
\* and the link the store resolves), and collect_sources() returns them in
\* that order.
C21_CitationsInOrder ==
    \A q \in Procs : \A i \in 1..Len(manager_calls[q]) :
        LET log == manager_calls[q]
            c == log[i]
            w == LastWrite(log, i) IN
        /\ IsSuccessfulSearch(c) =>
              /\ c.outcome.populates
              /\ Len(c.outcome.sources) = Len(c.results.documents)
              /\ c.outcome.sources = ExpectedCitations(c.results)
              /\ i = Len(log) => last_sources = ExpectedCitations(c.results)
        /\ (c.method = "get_last_sources" /\ w > 0 /\ IsSuccessfulSearch(log[w])) =>
              c.returned = ExpectedCitations(log[w].results)

C21_Witness ==
    \E q \in Procs :
        /\ Len(manager_calls[q]) = 2
        /\ manager_calls[q][1].method = "execute_tool"
        /\ manager_calls[q][1].name = "search_course_content"
        /\ manager_calls[q][1].results = ThreeResults
        /\ manager_calls[q][2].method = "get_last_sources"
        /\ manager_calls[q][2].returned =
              << [label |-> <<"Course B">>, link |-> <<>>],
                 [label |-> <<"Course A", " - Lesson ", "2">>, link |-> <<>>],
                 [label |-> <<"Course A", " - Lesson ", "1">>,
                  link |-> <<"https://example.com/lesson1">>] >>

-----------------------------------------------------------------------------
(* Unregistered tools *)

IsRegistered(name) == name \in Elems(TOOLS)

\* C22: when the provider requests a tool name that is not registered, the
\* orchestrator does not crash: the result turn of the round holds an
\* error-flagged result for that invocation and the query goes on to the next
\* provider call.
C22_UnknownToolContained ==
    \A q \in Procs : \A r \in 1..(MaxRoundsBound + 1) :
        LET es == ExecsOfRound(q, r) IN
        \A j \in 1..Len(es) :
            (~IsRegistered(es[j].name) /\ Raised(es[j])) =>
                /\ \A k \in FollowUpCalls(q) :
                      calls[q][k].round = r =>
                          /\ ResultTurn(q, k).content[j].tool_use_id = es[j].id
                          /\ "is_error" \in DOMAIN ResultTurn(q, k).content[j]
                          /\ ResultTurn(q, k).content[j].is_error
                /\ Finished(q) => FollowUpMade(q, r)

\* With tool schemas supplied, as query() does, an unregistered tool is
\* contained: the Tool Registry raises, line 143 catches.
UnknownToolWithSchemas ==
    SchemasWithManager =>
        /\ C22_UnknownToolContained
        /\ \A q \in Procs : \A j \in 1..Len(execs[q]) :
              (caller[q] = "query" /\ ~IsRegistered(execs[q][j].name))
                  => Raised(execs[q][j])


-----------------------------------------------------------------------------
(* Session history *)

SessionMethods(q) == [i \in 1..Len(session_calls[q]) |-> session_calls[q][i].method]

\* C23: a query with a session id reads the history provider once, before the
\* orchestrator runs (the first provider call already carries what was read),
\* and hands it exactly one record after the answer: the session id, the text
\* query() was called with (not the formatted prompt) and the final answer. A
\* query without a session id neither reads nor writes the provider.
C23_SessionHistory ==
    /\ [](\A q \in Procs :
            /\ caller[q] # "query" => session_calls[q] = <<>>
            /\ (caller[q] = "query" /\ request[q].session_id = None)
                   => session_calls[q] = <<>>
            /\ (caller[q] = "query" /\ request[q].session_id # None) =>
                   LET log == session_calls[q] IN
                   /\ IsPrefix(SessionMethods(q),
                               <<"get_conversation_history", "add_exchange">>)
                   /\ log # <<>>
                   /\ log[1].session_id = request[q].session_id
                   /\ calls[q][1].kwargs.system = SystemContent(log[1].returned)
                   /\ Len(log) = 2 =>
                          /\ Returned(q)
                          /\ Methods(manager_calls[q]) = CollectThenClear
                          /\ log[2].session_id = request[q].session_id
                          /\ log[2].query = request[q].text
                          /\ log[2].query # calls[q][1].kwargs.messages[1].content[1].text
                          /\ log[2].answer = result[q].value)
    /\ [][\A q \in Procs :
            (caller[q] = "query" /\ caller'[q] = "none" /\ Returned(q)
                 /\ request[q].session_id # None)
                => SessionMethods(q) = <<"get_conversation_history", "add_exchange">>]_vars

C23_Witness ==
    \E q \in Procs :
        /\ caller[q] = "query"
        /\ request[q].session_id = <<"session_1">>
        /\ Len(session_calls[q]) = 2
        /\ session_calls[q][1].returned = <<"history">>
        /\ session_calls[q][2].query = <<"query">>
        /\ execs[q] # <<>>
        /\ Returned(q)

\* a query without a session id has finished and the provider was not touched
NoSessionFinished ==
    \E q \in Procs :
        /\ caller[q] = "query"
        /\ request[q].session_id = None
        /\ pc[q] = "cleared"
        /\ Returned(q)
        /\ session_calls[q] = <<>>


\* the history query() passed to generate_response
HistoryOf(q) ==
    IF request[q].session_id = None THEN None ELSE session_calls[q][1].returned

WithHistory(history) == SYSTEM_PROMPT \o <<"\n\nPrevious conversation:\n">> \o history

\* C24: the system content of a call is the policy string followed by the
\* history under the heading "Previous conversation:" exactly when a non-empty
\* history was supplied, and is the policy string alone otherwise.
C24_SystemContent ==
    \A q \in Procs : calls[q] # <<>> =>
        LET system == calls[q][1].kwargs.system IN
        /\ caller[q] = "query" =>
               /\ HistoryOf(q) # None => system = WithHistory(HistoryOf(q))
               /\ HistoryOf(q) = None => system = SYSTEM_PROMPT
        /\ caller[q] = "direct" =>
               system \in {SYSTEM_PROMPT} \cup { WithHistory(h) : h \in Histories \ {None} }

C24_Witness ==
    \E q \in Procs :
        /\ caller[q] = "query"
        /\ HistoryOf(q) = <<"history">>
        /\ calls[q][1].kwargs.system = WithHistory(<<"history">>)
        /\ Finished(q)

\* a session without history, and no session at all: the policy string alone
PolicyAlone ==
    \E q \in Procs :
        /\ caller[q] = "query"
        /\ request[q].session_id # None
        /\ HistoryOf(q) = None
        /\ calls[q][1].kwargs.system = SYSTEM_PROMPT


-----------------------------------------------------------------------------
(* Sequencing of provider calls and tool dispatches *)

NewCall(q) == Len(calls[q]) >= 1 /\ Len(calls'[q]) = Len(calls[q]) + 1
NewExec(q) == Len(execs'[q]) = Len(execs[q]) + 1
\* the content of the result entry the orchestrator builds for a dispatch
EntryContent(e) ==
    IF e.outcome.kind = "return" THEN e.outcome.text
    ELSE <<"Error executing tool: ">> \o e.outcome.text

\* C25: a follow-up provider call is issued only when every invocation of the
\* round has been dispatched and its result is in the result turn the call
\* carries; a tool is dispatched only from the response of the latest provider
\* call, which has returned; within a round the dispatches follow the order of
\* the invocations.
C25_StrictlySequential ==
    /\ [](\A q \in Procs : pc[q] = "dispatch" =>
            /\ block_idx[q] \in 1..(Len(current_response[q].content) + 1)
            /\ Ids(ExecsOfRound(q, current_round[q])) =
                 Ids(ToolUses(SubSeq(current_response[q].content, 1, block_idx[q] - 1)))
            /\ Len(tool_results[q]) = Len(ExecsOfRound(q, current_round[q])))
    /\ [][\A q \in Procs :
            /\ NewCall(q) =>
                   LET invs == ToolUses(current_response[q].content)
                       done == ExecsOfRound(q, current_round[q])
                       msgs == calls'[q][Len(calls'[q])].kwargs.messages
                       turn == msgs[Len(msgs)]
                   IN /\ Ids(done) = Ids(invs)
                      /\ execs'[q] = execs[q]
                      /\ invs # <<>> =>
                             /\ turn.role = "user"
                             /\ Len(turn.content) = Len(invs)
                             /\ \A j \in 1..Len(invs) :
                                   /\ turn.content[j].tool_use_id = invs[j].id
                                   /\ turn.content[j].content = EntryContent(done[j])
            /\ NewExec(q) =>
                   LET e == execs'[q][Len(execs'[q])]
                       last == calls[q][Len(calls[q])]
                   IN /\ calls'[q] = calls[q]
                      /\ last.response # ProviderFault
                      /\ last.response = current_response[q]
                      /\ Len(calls[q]) = e.round
                      /\ IsToolUse(last.response.content[block_idx[q]])
                      /\ last.response.content[block_idx[q]].id = e.id
                      /\ \A j \in 1..Len(execs[q]) : execs[q][j].round <= e.round]_vars

C25_Witness ==
    \E q \in Procs :
        /\ Len(calls[q]) = 3
        /\ Len(execs[q]) = 3
        /\ Ids(ExecsOfRound(q, 1)) = <<"tool_2", "tool_1">>
        /\ Ids(ExecsOfRound(q, 2)) = <<"tool_1">>
        /\ Raised(execs[q][1])


-----------------------------------------------------------------------------
(* Two queries at once on one orchestrator and one Tool Registry *)

\* what the provider answers in the interleaved runs
ConcOutcomes ==
    { [stop_reason |-> "end_turn", content |-> <<T1>>],
      [stop_reason |-> "tool_use", content |-> <<U1>>],
      ProviderFault }

ConcInit == Init /\ MAX_TOOL_ROUNDS = MaxRoundsBound - 1

\* a step of query q; a query comes without a session, or with one that has
\* a history
ConcStep(q) ==
    \/ \E response \in ConcOutcomes :
          \/ Query(q, <<"query">>, None, None, response)
          \/ Query(q, <<"query">>, <<"session_1">>, <<"history">>, response)
    \/ \E outcome \in QueryOutcomes("search_course_content") : ExecuteBlock(q, outcome)
    \/ \E response \in ConcOutcomes : FollowUp(q, response)
    \/ CollectSources(q)
    \/ ClearSources(q)
    \/ AddExchange(q)
    \/ Return(q)

\* the calls of query() run in threads over one RAGSystem: any interleaving
ConcNext == \E q \in Procs : ConcStep(q)

ConcSpec == ConcInit /\ [][ConcNext]_vars

\* query q takes a step
StepOf(q) ==
    <<pc[q], block_idx[q], manager_calls[q], session_calls[q]>>' #
        <<pc[q], block_idx[q], manager_calls[q], session_calls[q]>>

\* the provider responses query q has received
ResponsesOf(q) == [k \in 1..Len(calls[q]) |-> calls[q][k].response]
AssistantTurns(msgs) == SelectSeq(msgs, LAMBDA m : m.role = "assistant")

\* the answer of a query that receives the responses rs and runs alone
AnswerAlone(rs) ==
    LET last == rs[Len(rs)] IN
    IF last.stop_reason = "raise" THEN [kind |-> "raise", value |-> "ProviderFault"]
    ELSE IF rs[1].stop_reason # "tool_use"
    THEN [kind |-> "return", value |-> rs[1].content[1].text]
    ELSE [kind |-> "return",
          value |-> IF \E i \in 1..Len(last.content) : "text" \in DOMAIN last.content[i]
                    THEN LET i == CHOOSE i \in 1..Len(last.content) :
                                     /\ "text" \in DOMAIN last.content[i]
                                     /\ \A j \in 1..(i - 1) :
                                           "text" \notin DOMAIN last.content[j]
                         IN last.content[i].text
                    ELSE "Unable to generate response."]

\* C26: of two queries running at once on one orchestrator, a step of one
\* never changes the message list, the round counter or the call parameters
\* of the other; the assistant turns a query sends are its own responses, and
\* its answer is the one its own responses give when it runs alone.
C26_QueriesIsolated ==
    /\ [](\A q \in Procs : caller[q] = "query" =>
            /\ \A k \in 1..Len(calls[q]) :
                  /\ calls[q][k].kwargs.system = calls[q][1].kwargs.system
                  /\ \A j \in 1..Len(AssistantTurns(calls[q][k].kwargs.messages)) :
                        /\ j < k
                        /\ AssistantTurns(calls[q][k].kwargs.messages)[j].content =
                             calls[q][j].response.content
            /\ Finished(q) => result[q] = AnswerAlone(ResponsesOf(q)))
    /\ [][\A q \in Procs : \A p \in Procs \ {q} :
            StepOf(q) =>
                /\ messages'[p] = messages[p]
                /\ current_round'[p] = current_round[p]
                /\ base_params'[p] = base_params[p]
                /\ calls'[p] = calls[p]
                /\ current_response'[p] = current_response[p]
                /\ tool_results'[p] = tool_results[p]
                /\ result'[p] = result[p]]_vars

\* both queries are inside their tool rounds, with different call parameters
C26_Witness ==
    /\ \A q \in Procs : caller[q] = "query" /\ Len(calls[q]) = 2 /\ execs[q] # <<>>
    /\ calls[1][1].kwargs.system # calls[2][1].kwargs.system
    /\ Returned(1)
    /\ Failed(2)


\* the citations of the searches of query q itself: those of its latest
\* search that wrote the pool, none when it made no such search
RECURSIVE OwnCitations(_, _)
OwnCitations(q, i) ==
    IF i = 0 THEN <<>>
    ELSE IF execs[q][i].outcome.populates THEN execs[q][i].outcome.sources
    ELSE OwnCitations(q, i - 1)

\* C27: of two queries interleaved on one Tool Registry, each returns the
\* citations of its own searches: none produced by a search of the other
\* query, and none of its own lost to the other's clear_sources().
C27_NoLeakAcrossQueries ==
    \A q \in Procs :
        (caller[q] = "query" /\ Returned(q) /\ pc[q] \in {"collected", "cleared"})
            => sources[q] = OwnCitations(q, Len(execs[q]))

\* a query that made no search returns the citations of the other's search
CitationsLeaked ==
    \E q \in Procs : \E p \in Procs \ {q} :
        /\ caller[q] = "query" /\ pc[q] = "collected"
        /\ Returned(q) /\ Returned(p)
        /\ execs[q] = <<>>
        /\ sources[q] # <<>>
        /\ sources[q] = OwnCitations(p, Len(execs[p]))

\* a query whose search found documents returns no citation
CitationsLost ==
    \E q \in Procs :
        /\ caller[q] = "query" /\ pc[q] = "collected"
        /\ \A p \in Procs : caller[p] = "query" /\ Returned(p)
        /\ OwnCitations(q, Len(execs[q])) # <<>>
        /\ sources[q] = <<>>


-----------------------------------------------------------------------------
(* Outline lookup and the citation pool *)

IsOutline(c) == c.method = "execute_tool" /\ c.name = "get_course_outline"

\* C28: an outline lookup never changes the citation pool: get_last_sources
\* after a successful search followed by an outline lookup still returns the
\* citations of the search, and after outline lookups only it returns the
\* empty list.
C28_OutlineKeepsPool ==
    /\ [](\A q \in Procs : \A i \in 1..Len(manager_calls[q]) :
            LET log == manager_calls[q] IN
            /\ IsOutline(log[i]) => ~log[i].outcome.populates
            /\ (/\ log[i].method = "get_last_sources"
                /\ i >= 3
                /\ IsOutline(log[i - 1])
                /\ IsSuccessfulSearch(log[i - 2]))
                   => /\ log[i].returned = log[i - 2].outcome.sources
                      /\ Len(log[i].returned) = Len(log[i - 2].results.documents)
            /\ (/\ log[i].method = "get_last_sources"
                /\ \A j \in 1..(i - 1) : IsOutline(log[j]))
                   => log[i].returned = <<>>)
    /\ [][\A q \in Procs :
            (CallMade(q) /\ IsOutline(Called(q))) => last_sources' = last_sources]_vars

C28_Witness ==
    \E q \in Procs :
        /\ Len(manager_calls[q]) = 3
        /\ IsSuccessfulSearch(manager_calls[q][1])
        /\ IsOutline(manager_calls[q][2])
        /\ manager_calls[q][3].method = "get_last_sources"
        /\ manager_calls[q][3].returned = ExpectedCitations(ThreeResults)

\* outline lookups only, then the citations are read
OutlineOnly ==
    \E q \in Procs :
        /\ Len(manager_calls[q]) = 3
        /\ IsOutline(manager_calls[q][1])
        /\ IsOutline(manager_calls[q][2])
        /\ manager_calls[q][3] = [method |-> "get_last_sources", returned |-> <<>>]


-----------------------------------------------------------------------------
(* Round counter *)

\* the call entered _handle_tool_execution: the round counter exists
ToolPath(q) ==
    /\ calls[q] # <<>>
    /\ tool_manager[q]
    /\ calls[q][1].response.stop_reason = "tool_use"

ToolUseResponses(q) ==
    Cardinality({ k \in 1..Len(calls[q]) : calls[q][k].response.stop_reason = "tool_use" })

\* C29 as stated: the counter is 1 after the initial response and one more
\* after every additional provider call that returned.
C29_RoundCountsCalls ==
    \A q \in Procs :
        (ToolPath(q) /\ calls[q][Len(calls[q])].response # ProviderFault)
            => current_round[q] = Len(calls[q])

\* C29, amended: the counter is 1 once the initial response has asked for
\* tools, grows by exactly one when a follow-up call again returns a tool-use
\* response and stays as it is when a follow-up call returns a terminal
\* response or raises; it never decreases and changes by at most one per
\* provider call.
C29_RoundCounter ==
    /\ [](\A q \in Procs :
            /\ ToolPath(q) => current_round[q] = ToolUseResponses(q)
            /\ ~ToolPath(q) => current_round[q] = 0)
    /\ [][\A q \in Procs :
            /\ (pc[q] = "idle" /\ pc'[q] # "idle")
                   => current_round'[q] = (IF ToolPath(q)' THEN 1 ELSE 0)
            /\ NewCall(q) =>
                   LET response == calls'[q][Len(calls'[q])].response IN
                   /\ current_round'[q] - current_round[q] \in {0, 1}
                   /\ current_round'[q] = current_round[q] + 1
                          <=> response.stop_reason = "tool_use"
            /\ (pc[q] # "idle" /\ pc'[q] # "idle" /\ ~NewCall(q))
                   => current_round'[q] = current_round[q]]_vars

\* two tool-use responses, then a terminal one: three calls, counter at 2
C29_Witness ==
    \E q \in Procs :
        /\ ToolPath(q)
        /\ Len(calls[q]) = 3
        /\ calls[q][3].response.stop_reason = "end_turn"
        /\ current_round[q] = 2
        /\ Returned(q)


-----------------------------------------------------------------------------
(* Parameters of the provider calls *)

\* C30: every provider call of a query, the initial one and every follow-up
\* call, with or without tools, carries the same model name, temperature 0,
\* max_tokens 800 and the system content of the first call.
C30_SameParameters ==
    \A q \in Procs : \A k \in 1..Len(calls[q]) :
        LET kwargs == calls[q][k].kwargs IN
        /\ kwargs.model = "model"
        /\ kwargs.model = calls[q][1].kwargs.model
        /\ kwargs.temperature = 0
        /\ kwargs.max_tokens = 800
        /\ kwargs.system = calls[q][1].kwargs.system
        /\ DOMAIN kwargs \subseteq
             {"model", "temperature", "max_tokens", "messages", "system", "tools",
              "tool_choice"}

\* a query with a history made a follow-up call with tools and one without
C30_Witness ==
    \E q \in Procs :
        /\ Len(calls[q]) = 3
        /\ HasTools(calls[q][2].kwargs)
        /\ ~HasTools(calls[q][3].kwargs)
        /\ calls[q][3].kwargs.system = WithHistory(<<"history">>)


-----------------------------------------------------------------------------
(* The first provider call *)

\* C31: the first provider call of a query carries exactly one user turn whose
\* content is the query text handed to generate_response, unchanged; it
\* carries tools and tool_choice "auto" exactly when a non-empty schema list
\* was supplied, and neither key otherwise.
C31_FirstCall ==
    \A q \in Procs : calls[q] # <<>> =>
        LET kwargs == calls[q][1].kwargs IN
        /\ Len(kwargs.messages) = 1
        /\ kwargs.messages[1].role = "user"
        /\ kwargs.messages[1].content = <<[type |-> "str", text |-> args[q].query]>>
        /\ caller[q] = "query" =>
               args[q].query =
                   <<"Answer this question about course materials: ">> \o request[q].text
        /\ args[q].tools # <<>> =>
               /\ "tools" \in DOMAIN kwargs /\ "tool_choice" \in DOMAIN kwargs
               /\ kwargs.tools = args[q].tools
               /\ kwargs.tool_choice = [type |-> "auto"]
        /\ args[q].tools = <<>> =>
               "tools" \notin DOMAIN kwargs /\ "tool_choice" \notin DOMAIN kwargs

\* a call without schemas has been made and answered
C31_Witness ==
    \E q \in Procs :
        /\ caller[q] = "direct"
        /\ args[q].tools = <<>>
        /\ args[q].query = <<"query">>
        /\ DOMAIN calls[q][1].kwargs =
             {"model", "temperature", "max_tokens", "messages", "system"}
        /\ Returned(q)

\* a call with the schema list carries both keys
FirstCallWithTools ==
    \E q \in Procs :
        /\ args[q].tools = TOOLS
        /\ calls[q][1].kwargs.tools = TOOLS
        /\ calls[q][1].kwargs.tool_choice = [type |-> "auto"]


-----------------------------------------------------------------------------
(* A tool manager without tool schemas *)

\* a tool manager was supplied, no schemas were, and the first response
\* nevertheless asks for tools
NoSchemasToolUse(q) ==
    /\ calls[q] # <<>>
    /\ args[q].tool_manager
    /\ args[q].tools = <<>>
    /\ calls[q][1].response.stop_reason = "tool_use"

\* C32: with a tool manager but no tool schemas, a first response that asks
\* for tools is still served without raising: the tools are dispatched, the
\* results folded back and a follow-up provider call is made.
C32_NoSchemasCompletes ==
    \A q \in Procs :
        NoSchemasToolUse(q) =>
            /\ ~(Failed(q) /\ result[q].value = "KeyError")
            /\ (Finished(q) /\ MAX_TOOL_ROUNDS >= 1) => Len(calls[q]) >= 2

\* the dispatches of the round were made and the results folded back, and
\* then the construction of the follow-up parameters raised
KeyErrorAfterDispatch ==
    \E q \in Procs :
        /\ NoSchemasToolUse(q)
        /\ Failed(q) /\ result[q].value = "KeyError"
        /\ Len(execs[q]) = 2
        /\ Len(calls[q]) = 1
        /\ Len(messages[q]) = 3

\* where the follow-up call omits the tools anyway, the query completes
C32_LastRoundCompletes ==
    \A q \in Procs :
        (NoSchemasToolUse(q) /\ MAX_TOOL_ROUNDS = 1 /\ Finished(q)) =>
            /\ Len(calls[q]) = 2
            /\ result[q].value # "KeyError"


-----------------------------------------------------------------------------
(* No tool manager *)

\* no tool manager was supplied and the first response asks for tools
ToolUseWithoutManager(q) ==
    /\ calls[q] # <<>>
    /\ ~args[q].tool_manager
    /\ calls[q][1].response.stop_reason = "tool_use"

\* C33: without a tool manager a tool-use response triggers no dispatch and
\* no further provider call: one provider call is made and the call goes
\* straight to line 98, which takes the answer from the first segment of that
\* response.
C33_NoManagerNoDispatch ==
    \A q \in Procs :
        ToolUseWithoutManager(q) =>
            LET content == calls[q][1].response.content IN
            /\ Len(calls[q]) = 1
            /\ execs[q] = <<>>
            /\ tool_results[q] = <<>>
            /\ current_round[q] = 0
            /\ pc[q] # "dispatch"
            /\ Finished(q)
            /\ (content # <<>> /\ "text" \in DOMAIN content[1])
                   => result[q] = [kind |-> "return", value |-> content[1].text]
            /\ (content = <<>> \/ "text" \notin DOMAIN content[1]) => Failed(q)

\* a tool-use response whose first segment is text, answered by that text
C33_Witness ==
    \E q \in Procs :
        /\ ToolUseWithoutManager(q)
        /\ args[q].tools = TOOLS
        /\ calls[q][1].response.content = <<T1, U1>>
        /\ result[q] = [kind |-> "return", value |-> "answer"]


-----------------------------------------------------------------------------
(* Turns that mix text and invocations *)

Mixed(content) ==
    /\ \E i \in 1..Len(content) : content[i].type = "tool_use"
    /\ \E i \in 1..Len(content) : content[i].type = "text"

\* the round of the k-th response is over: its for loop has ended
RoundOver(q, k) == Len(calls[q]) > k \/ Finished(q)

\* C34: of a tool-use turn that mixes text and invocations only the
\* invocations are dispatched, one dispatch per invocation, and the assistant
\* turn recorded in the conversation state holds the content segments of the
\* response unchanged and in order.
C34_MixedTurn ==
    \A q \in Procs : \A k \in 1..Len(calls[q]) :
        LET response == calls[q][k].response IN
        (ToolPath(q) /\ response.stop_reason = "tool_use" /\ Mixed(response.content)) =>
            /\ Len(AssistantTurns(messages[q])) >= k
            /\ AssistantTurns(messages[q])[k].content = response.content
            /\ Len(ExecsOfRound(q, k)) <= Len(ToolUses(response.content))
            /\ \A j \in 1..Len(ExecsOfRound(q, k)) :
                  /\ ExecsOfRound(q, k)[j].id = ToolUses(response.content)[j].id
                  /\ ExecsOfRound(q, k)[j].name = ToolUses(response.content)[j].name
            /\ (k <= MAX_TOOL_ROUNDS /\ RoundOver(q, k)) =>
                   /\ Len(ExecsOfRound(q, k)) = Len(ToolUses(response.content))
                   /\ Len(ExecsOfRound(q, k)) < Len(response.content)

\* a text segment before the invocation in round 1, one after it in round 2
C34_Witness ==
    \E q \in Procs :
        /\ ToolPath(q)
        /\ Len(calls[q]) = 3
        /\ calls[q][1].response.content = <<T1, U1>>
        /\ calls[q][2].response.content = <<U1, T2>>
        /\ Len(execs[q]) = 2
        /\ messages[q][2].content = <<T1, U1>>
        /\ messages[q][4].content = <<U1, T2>>


-----------------------------------------------------------------------------
(* Queries whose searches meet every answer of the store *)

SearchResponses ==
    { [stop_reason |-> "end_turn", content |-> <<T1>>],
      [stop_reason |-> "tool_use", content |-> <<U1>>] }

\* three tool rounds are allowed, so that two follow-up calls offer tools
SearchInit == NoCall /\ MAX_TOOL_ROUNDS = MaxRoundsBound + 1

\* one query() at a time; the provider asks for searches and the store
\* answers each with an error, with no match, or with documents
SearchStep(q) ==
    \/ \E response \in SearchResponses : Query(q, <<"query">>, None, None, response)
    \/ \E outcome \in RegistryOutcomes("search_course_content") : ExecuteBlock(q, outcome)
    \/ \E response \in SearchResponses : FollowUp(q, response)
    \/ CollectSources(q)
    \/ ClearSources(q)
    \/ Return(q)

SearchNext == \E q \in SeqProcs : SearchStep(q)

SearchSpec == SearchInit /\ [][SearchNext]_vars

\* the result entries handed to the provider with its k-th call
ResultEntries(q, k) ==
    LET msgs == calls[q][k].kwargs.messages IN
    IF Len(msgs) >= 3 /\ msgs[Len(msgs)].role = "user" THEN msgs[Len(msgs)].content
    ELSE <<>>

Flagged(entry) == "is_error" \in DOMAIN entry

\* C35: a tool result is error-flagged exactly when its dispatch raised; a
\* dispatch that returns text, a store error message and a no-content message
\* included, yields a result whose content is that text unchanged and that
\* carries no error flag.
C35_FlagIffRaised ==
    \A q \in Procs :
        /\ \A k \in FollowUpCalls(q) :
              LET es == ExecsOfRound(q, calls[q][k].round)
                  entries == ResultEntries(q, k) IN
              /\ Len(entries) = Len(es)
              /\ \A j \in 1..Len(es) :
                    /\ Flagged(entries[j]) <=> es[j].outcome.kind = "raise"
                    /\ es[j].outcome.kind = "return" =>
                           /\ entries[j].content = es[j].outcome.text
                           /\ DOMAIN entries[j] = {"type", "tool_use_id", "content"}
                    /\ es[j].outcome.kind = "raise" =>
                           /\ entries[j].is_error = TRUE
                           /\ entries[j].content =
                                  <<"Error executing tool: ">> \o es[j].outcome.text
        /\ pc[q] = "dispatch" =>
              LET es == ExecsOfRound(q, current_round[q]) IN
              /\ Len(tool_results[q]) = Len(es)
              /\ \A j \in 1..Len(es) :
                    /\ Flagged(tool_results[q][j]) <=> es[j].outcome.kind = "raise"
                    /\ es[j].outcome.kind = "return" =>
                           tool_results[q][j].content = es[j].outcome.text

\* a search without match in round 1 and a store error in round 2: both
\* messages reach the provider as plain results
C35_Witness ==
    \E q \in Procs :
        /\ Len(calls[q]) = 3
        /\ ResultEntries(q, 2) =
             << [type |-> "tool_result", tool_use_id |-> "tool_1",
                 content |-> <<"No relevant content found", ".">>] >>
        /\ ResultEntries(q, 3) =
             << [type |-> "tool_result", tool_use_id |-> "tool_1",
                 content |-> <<"No course found matching 'X'">>] >>


-----------------------------------------------------------------------------
(* The schemas offered by the follow-up calls *)

\* C36: every follow-up provider call that offers tools offers exactly the
\* schema list sent on the first call of the query: the same schemas in the
\* same order, in every round.
C36_SameSchemas ==
    \A q \in Procs : \A k \in FollowUpCalls(q) :
        "tools" \in DOMAIN calls[q][k].kwargs =>
            /\ "tools" \in DOMAIN calls[q][1].kwargs
            /\ calls[q][k].kwargs.tools = calls[q][1].kwargs.tools
            /\ calls[q][k].kwargs.tools = args[q].tools
            /\ Len(calls[q][k].kwargs.tools) = Len(args[q].tools)
            /\ \A j \in 2..k :
                  "tools" \in DOMAIN calls[q][j].kwargs
                      => calls[q][j].kwargs.tools = calls[q][k].kwargs.tools

\* two follow-up calls offer the schemas, the third omits them
C36_Witness ==
    \E q \in Procs :
        /\ Len(calls[q]) = 4
        /\ calls[q][1].kwargs.tools = TOOLS
        /\ calls[q][2].kwargs.tools = TOOLS
        /\ calls[q][3].kwargs.tools = TOOLS
        /\ "tools" \notin DOMAIN calls[q][4].kwargs


-----------------------------------------------------------------------------
(* No state between queries *)

\* query q starts: generate_response makes its first provider call
Starts(q) == pc[q] = "idle" /\ pc'[q] # "idle"
\* query p is over: with an answer, the fallback or a fault
Over(p) == caller[p] = "query" /\ Finished(p)

OneUserTurn(msgs, query) ==
    msgs = << [role |-> "user", content |-> <<[type |-> "str", text |-> query]>>] >>

\* C37: a query leaves the base parameters of the orchestrator, and the
\* message list of its first provider call, as they were, however it ends;
\* a query that starts, after another is over or not, starts from a one-turn
\* conversation, the base parameters of the constructor and round counter 1.
C37_NoStateBetweenQueries ==
    /\ [](/\ instance_base_params = [model |-> "model", temperature |-> 0, max_tokens |-> 800]
          /\ \A q \in Procs : calls[q] # <<>> =>
                /\ OneUserTurn(base_params[q].messages, args[q].query)
                /\ OneUserTurn(calls[q][1].kwargs.messages, args[q].query))
    /\ [][\A q \in Procs :
            Starts(q) =>
                /\ instance_base_params' = instance_base_params
                /\ Len(calls'[q]) = 1
                /\ OneUserTurn(calls'[q][1].kwargs.messages, args'[q].query)
                /\ calls'[q][1].kwargs.model = "model"
                /\ calls'[q][1].kwargs.temperature = 0
                /\ calls'[q][1].kwargs.max_tokens = 800
                /\ execs'[q] = <<>>
                /\ ToolPath(q)' =>
                       /\ current_round'[q] = 1
                       /\ Len(messages'[q]) = 2
                       /\ messages'[q][1] = calls'[q][1].kwargs.messages[1]]_vars

\* one query is over after a tool round, with the fallback as its answer, and
\* the other is in its first round, with a two-turn conversation
C37_Witness ==
    \E p \in Procs : \E q \in Procs \ {p} :
        /\ Over(p)
        /\ pc[p] = "cleared"
        /\ Len(calls[p]) = 2
        /\ result[p] = [kind |-> "return", value |-> "Unable to generate response."]
        /\ pc[q] = "dispatch"
        /\ Len(calls[q]) = 1
        /\ current_round[q] = 1
        /\ Len(messages[q]) = 2

\* ... and the same after a query that ended with a provider fault
StartedAfterFault ==
    \E p \in Procs : \E q \in Procs \ {p} :
        /\ Over(p) /\ pc[p] = "cleared"
        /\ result[p] = [kind |-> "raise", value |-> "ProviderFault"]
        /\ Len(calls[p]) = 2
        /\ pc[q] = "dispatch" /\ current_round[q] = 1 /\ Len(calls[q]) = 1


-----------------------------------------------------------------------------
(* max_tool_rounds of zero or less *)

\* the least value of config.MAX_TOOL_ROUNDS that is tried
MinRounds == -1

\* the calls of Spec under a configuration of -1, 0 or a few rounds
LowInit == NoCall /\ MAX_TOOL_ROUNDS \in MinRounds..(MaxRoundsBound - 1)

LowSpec == LowInit /\ [][Next]_vars

\* C38: with max_tool_rounds 0 or negative, a tool-use first response leads to
\* no dispatch and no follow-up call: one provider call is made, and the
\* answer is the first text segment of that response or, without one, the
\* fallback message.
C38_NoRounds ==
    \A q \in Procs :
        (MAX_TOOL_ROUNDS <= 0 /\ ToolPath(q)) =>
            LET content == calls[q][1].response.content
                texts == { i \in 1..Len(content) : "text" \in DOMAIN content[i] }
            IN /\ Len(calls[q]) = 1
               /\ execs[q] = <<>>
               /\ tool_results[q] = <<>>
               /\ pc[q] # "dispatch"
               /\ Returned(q)
               /\ texts # {} =>
                      \E i \in texts :
                          /\ \A j \in texts : i <= j
                          /\ result[q].value = content[i].text
               /\ texts = {} => result[q].value = "Unable to generate response."

\* a negative configuration: the text after the invocation is the answer
C38_Witness ==
    \E q \in Procs :
        /\ MAX_TOOL_ROUNDS < 0
        /\ ToolPath(q)
        /\ calls[q][1].response.content = <<U1, T2>>
        /\ result[q] = [kind |-> "return", value |-> "more"]

\* configuration 0 and a response without text: the fallback
NoRoundsFallback ==
    \E q \in Procs :
        /\ MAX_TOOL_ROUNDS = 0
        /\ ToolPath(q)
        /\ calls[q][1].response.content = <<U2, U1>>
        /\ result[q] = [kind |-> "return", value |-> "Unable to generate response."]

====
